---------------------------- MODULE Spec2Model ----------------------------
(***************************************************************************)
(* A model of xmodule/modulestore/locator.py: the Locator family           *)
(* (CourseLocator, BlockUsageLocator, DescriptionLocator), the set-once    *)
(* field discipline of set_property, and the VersionTree built from an     *)
(* adjacency mapping.                                                      *)
(*                                                                         *)
(* Python values are modelled as sequences so that any two of them can be  *)
(* compared: a str is the sequence of its characters (<<"a", ";", "d">>),  *)
(* None is the one-element sequence <<"None">> (no character has four      *)
(* letters), an ObjectId is <<"ObjectId">> followed by its 24 lower-case   *)
(* hex digits.  An instance is [cls, d] with d its __dict__; an attribute  *)
(* absent from d reads the class-level default.                            *)
(***************************************************************************)
EXTENDS Naturals, Sequences, FiniteSets, TLC

VARIABLES
    op,         \* the operation performed last
    args,       \* the arguments of the last constructor call
    obj,        \* the instance the last constructor call returned (NoObj: none)
    exc,        \* the exception the last operation raised (NoExc: none)
    ret,        \* the value the last url() or version() call returned
    copy,       \* the instance the last derived construction returned
    other,      \* the second operand of the last __eq__
    eq,         \* the value the last __eq__ returned
    last,       \* the last set_property call: field, new value, value before
    root,       \* VersionTree(locator, tree_dict): the locator argument
    tree_dict,  \* VersionTree(locator, tree_dict): the mapping (NoDict: None)
    stack,      \* the frames of the VersionTree.__init__ calls in progress
    tree        \* the VersionTree the outermost call returned (NoTree: none)

locVars == <<op, args, obj, exc, ret, copy, other, eq, last>>
treeVars == <<root, tree_dict, stack, tree>>
vars == <<op, args, obj, exc, ret, copy, other, eq, last,
          root, tree_dict, stack, tree>>

---------------------------------------------------------------------------
(* Values *)

None == <<"None">>
EmptyStr == <<>>
NoExc == "none"
NoObj == [cls |-> "none", d |-> <<>>]
NoArgs == [cls |-> "none"]
NoLast == [name |-> "none"]
NoTree == [none |-> TRUE]
NoDict == [given |-> FALSE, map |-> <<>>]

\* Python truthiness of the values a field or an argument holds: None and ''
\* are falsy, a non-empty str and an ObjectId are truthy.
Truthy(v) == v # None /\ v # EmptyStr

\* An ObjectId is 12 bytes, written as 24 hex digits.
OidLen == 24

Digits == {"0", "1", "2", "3", "4", "5", "6", "7", "8", "9"}
HexLower == {"a", "b", "c", "d", "e", "f"}
HexUpper == {"A", "B", "C", "D", "E", "F"}
HexChars == Digits \cup HexLower \cup HexUpper
\* \w: letters, digits and the underscore
WordChars == Digits \cup {"_"} \cup
    {"a", "b", "c", "d", "e", "f", "g", "h", "i", "j", "k", "l", "m",
     "n", "o", "p", "q", "r", "s", "t", "u", "v", "w", "x", "y", "z",
     "A", "B", "C", "D", "E", "F", "G", "H", "I", "J", "K", "L", "M",
     "N", "O", "P", "Q", "R", "S", "T", "U", "V", "W", "X", "Y", "Z"}

Lower(c) ==
    CASE c = "A" -> "a" [] c = "B" -> "b" [] c = "C" -> "c"
      [] c = "D" -> "d" [] c = "E" -> "e" [] c = "F" -> "f"
      [] OTHER -> c

IsObjectId(v) == Len(v) = OidLen + 1 /\ v[1] = "ObjectId"

\* bson's ObjectId(s) for a str s: InvalidId unless s is 24 hex digits; two
\* ObjectIds are equal when their bytes are, whatever the case they were
\* written in.
InvalidId == <<"InvalidId">>
ObjectId(s) ==
    IF Len(s) = OidLen /\ \A i \in 1..Len(s) : s[i] \in HexChars
    THEN <<"ObjectId">> \o [i \in 1..Len(s) |-> Lower(s[i])]
    ELSE InvalidId

\* str(v): an ObjectId's 24 lower-case hex digits, a str itself
str(v) == IF IsObjectId(v) THEN Tail(v) ELSE v

---------------------------------------------------------------------------
(* The field-mapping parsers (parsers.py): a mapping of the captured       *)
(* fields, or NoMatch (the parser's None) when the string does not match.   *)

NoMatch == [nomatch |-> TRUE]

IsWord(s) == Len(s) > 0 /\ \A i \in 1..Len(s) : s[i] \in WordChars

\* words separated by single dots: edu.mit.eecs.6002x
IsDottedWords(s) ==
    /\ Len(s) > 0
    /\ \A i \in 1..Len(s) : s[i] \in WordChars \cup {"."}
    /\ s[1] # "." /\ s[Len(s)] # "."
    /\ \A i \in 1..(Len(s) - 1) : ~(s[i] = "." /\ s[i + 1] = ".")

\* the index of the first character of s that is in C, Len(s) + 1 if none is
FirstIndex(s, C) ==
    IF \E i \in 1..Len(s) : s[i] \in C
    THEN CHOOSE i \in 1..Len(s) :
            s[i] \in C /\ \A j \in 1..(i - 1) : s[j] \notin C
    ELSE Len(s) + 1

\* the part after a leading '#', None when there is no '#' part
BlockPart(t) == IF t = <<>> THEN None ELSE Tail(t)
BlockPartOk(t) == t = <<>> \/ IsWord(Tail(t))

\* id [';' revision] ['#' block]
parse_course_id(s) ==
    LET i == FirstIndex(s, {";", "#"})
        id == SubSeq(s, 1, i - 1)
        rest == SubSeq(s, i, Len(s))
        j == FirstIndex(rest, {"#"})
        rev == SubSeq(rest, 2, j - 1)
        tail == SubSeq(rest, j, Len(rest))
    IN  IF ~IsDottedWords(id) THEN NoMatch
        ELSE IF rest = <<>>
            THEN [id |-> id, revision |-> None, block |-> None]
        ELSE IF rest[1] = ";"
            THEN IF IsWord(rev) /\ BlockPartOk(tail)
                 THEN [id |-> id, revision |-> rev, block |-> BlockPart(tail)]
                 ELSE NoMatch
        ELSE IF BlockPartOk(rest)
            THEN [id |-> id, revision |-> None, block |-> BlockPart(rest)]
            ELSE NoMatch

\* hex digits ['#' block]
parse_guid(s) ==
    LET i == FirstIndex(s, {"#"})
        guid == SubSeq(s, 1, i - 1)
        tail == SubSeq(s, i, Len(s))
    IN  IF Len(guid) > 0 /\ (\A k \in 1..Len(guid) : guid[k] \in HexChars)
           /\ BlockPartOk(tail)
        THEN [version_guid |-> guid, block |-> BlockPart(tail)]
        ELSE NoMatch

Scheme == <<"e", "d", "x", ":", "/", "/">>

\* 'edx://' then '@' guid, or a course id
parse_url(s) ==
    LET path == SubSeq(s, Len(Scheme) + 1, Len(s))
    IN  IF Len(s) <= Len(Scheme) \/ SubSeq(s, 1, Len(Scheme)) # Scheme
        THEN NoMatch
        ELSE IF path[1] = "@" THEN parse_guid(Tail(path))
        ELSE parse_course_id(path)

parse_block_ref(s) == IF IsWord(s) THEN [block |-> s] ELSE NoMatch

---------------------------------------------------------------------------
(* Instances *)

\* the attributes a class defines at class level (all default to None)
ClassAttrs(cls) ==
    CASE cls = "CourseLocator" -> {"version_guid", "course_id", "revision"}
      [] cls = "BlockUsageLocator" ->
            {"version_guid", "course_id", "revision", "usage_id"}
      [] OTHER -> {}

HasAttr(o, name) == name \in DOMAIN o.d \/ name \in ClassAttrs(o.cls)

\* getattr(o, name) where the attribute exists: the instance's own value,
\* else the class-level default
GetAttr(o, name) == IF name \in DOMAIN o.d THEN o.d[name] ELSE None

\* setattr(o, name, v) on the instance's __dict__
Put(d, name, v) ==
    [k \in DOMAIN d \cup {name} |-> IF k = name THEN v ELSE d[k]]

\* A constructor call in progress: the instance so far and the exception
\* raised, if any.
New(cls) == [cls |-> cls, d |-> <<>>, exc |-> NoExc]
Raise(st, e) == [st EXCEPT !.exc = e]
Inst(st) == [cls |-> st.cls, d |-> st.d]

---------------------------------------------------------------------------
(* Locator.set_property *)

\* set_property without the check: the last write wins
set_property_overwrite(st, property_name, new) ==
    [st EXCEPT !.d = Put(st.d, property_name, new)]

\* set_property that keeps the first value instead of raising
set_property_first_wins(st, property_name, new) ==
    IF Truthy(GetAttr(Inst(st), property_name)) THEN st
    ELSE [st EXCEPT !.d = Put(st.d, property_name, new)]

set_property(st, property_name, new) ==
    IF Truthy(GetAttr(Inst(st), property_name))
       /\ GetAttr(Inst(st), property_name) # new
    THEN Raise(st, "OverSpecificationError")
    ELSE [st EXCEPT !.d = Put(st.d, property_name, new)]

---------------------------------------------------------------------------
(* What a constructor does to the instance, in order.  Between its calls   *)
(* of set_property no initializer reads the instance, so each is modelled  *)
(* as the sequence of steps its arguments make it take:                    *)
(*   Set(name, new)   self.set_property(name, new)                         *)
(*   Throw(e)         raise e (a failed assert is an AssertionError)       *)
(*   AssertAddressed  assert self.version_guid or self.course_id           *)
(* Exec runs such a sequence on an instance and stops at the first         *)
(* exception.                                                              *)

Set(name, new) == [kind |-> "set", name |-> name, new |-> new]
Throw(e) == [kind |-> "raise", name |-> e, new |-> None]
AssertAddressed == [kind |-> "assert", name |-> "addressed", new |-> None]

set_course_id(new) == <<Set("course_id", new)>>
set_revision(new) == <<Set("revision", new)>>
set_version_guid(new) == <<Set("version_guid", new)>>
set_usage_id(new) == <<Set("usage_id", new)>>

Step(st, c) ==
    CASE c.kind = "set" -> set_property(st, c.name, c.new)
      [] c.kind = "raise" -> Raise(st, c.name)
      [] c.kind = "assert" ->
            IF Truthy(GetAttr(Inst(st), "version_guid"))
               \/ Truthy(GetAttr(Inst(st), "course_id"))
            THEN st ELSE Raise(st, "AssertionError")

RECURSIVE Exec(_, _, _)
Exec(st, calls, i) ==
    IF i > Len(calls) \/ st.exc # NoExc THEN st
    ELSE CHOOSE r \in {Exec(s, calls, i + 1) : s \in {Step(st, calls[i])}} :
            TRUE

---------------------------------------------------------------------------
(* CourseLocator *)

\* provided_args are the arguments that are not None
validate_args(url, version_guid, course_id, revision) ==
    IF url = None /\ version_guid = None /\ course_id = None
    THEN <<Throw("InsufficientSpecificationError")>>
    ELSE <<>>

init_from_url(url) ==
    LET parse == parse_url(url)
        new_guid == parse.version_guid
    IN  IF parse = NoMatch THEN <<Throw("AssertionError")>>
        ELSE IF "version_guid" \in DOMAIN parse
            THEN IF ObjectId(new_guid) = InvalidId
                 THEN <<Throw("ValueError")>>
                 ELSE set_version_guid(ObjectId(new_guid))
        ELSE set_course_id(parse.id) \o set_revision(parse.revision)

init_from_version_guid(version_guid) ==
    IF ~IsObjectId(version_guid) THEN <<Throw("AssertionError")>>
    ELSE set_version_guid(version_guid)

init_from_course_id(course_id, explicit_revision) ==
    LET parse == parse_course_id(course_id)
        rev == parse.revision
    IN  (IF ~Truthy(course_id) THEN <<>>
         ELSE IF parse = NoMatch THEN <<Throw("AssertionError")>>
         ELSE set_course_id(parse.id)
              \o (IF Truthy(rev) THEN set_revision(rev) ELSE <<>>))
        \o (IF Truthy(explicit_revision)
            THEN set_revision(explicit_revision) ELSE <<>>)

CourseLocator__init__(url, version_guid, course_id, revision) ==
    validate_args(url, version_guid, course_id, revision)
    \o (IF Truthy(url) THEN init_from_url(url) ELSE <<>>)
    \o (IF Truthy(version_guid)
        THEN init_from_version_guid(version_guid) ELSE <<>>)
    \o (IF Truthy(course_id) \/ Truthy(revision)
        THEN init_from_course_id(course_id, revision) ELSE <<>>)
    \o <<AssertAddressed>>

\* CourseLocator.__unicode__ that prefers the version_guid
CourseLocator__unicode__guid_first(o) ==
    IF Truthy(GetAttr(o, "version_guid"))
    THEN <<"@">> \o str(GetAttr(o, "version_guid"))
    ELSE IF Truthy(GetAttr(o, "revision"))
        THEN GetAttr(o, "course_id") \o <<";">> \o GetAttr(o, "revision")
    ELSE GetAttr(o, "course_id")

Placeholder == <<"<InsufficientSpecificationError>">>

CourseLocator__unicode__(o) ==
    IF Truthy(GetAttr(o, "course_id"))
    THEN IF Truthy(GetAttr(o, "revision"))
         THEN GetAttr(o, "course_id") \o <<";">> \o GetAttr(o, "revision")
         ELSE GetAttr(o, "course_id")
    ELSE IF Truthy(GetAttr(o, "version_guid"))
        THEN <<"@">> \o str(GetAttr(o, "version_guid"))
    ELSE Placeholder

---------------------------------------------------------------------------
(* BlockUsageLocator *)

init_block_ref(block_ref) ==
    LET parse == parse_block_ref(block_ref)
    IN  IF parse = NoMatch THEN <<Throw("AssertionError")>>
        ELSE set_usage_id(parse.block)

init_block_ref_from_url(url) ==
    LET parse == parse_url(url)
        block == IF "block" \in DOMAIN parse THEN parse.block ELSE None
    IN  IF parse = NoMatch THEN <<Throw("AssertionError")>>
        ELSE IF Truthy(block) THEN set_usage_id(block)
        ELSE <<>>

init_block_ref_from_course_id(course_id) ==
    LET parse == parse_course_id(course_id)
        block == IF "block" \in DOMAIN parse THEN parse.block ELSE None
    IN  IF parse = NoMatch THEN <<Throw("AssertionError")>>
        ELSE IF Truthy(block) THEN set_usage_id(block)
        ELSE <<>>

BlockUsageLocator__init__(url, version_guid, course_id, revision, usage_id) ==
    validate_args(url, version_guid, course_id, revision)
    \o (IF Truthy(url) THEN init_block_ref_from_url(url) ELSE <<>>)
    \o (IF Truthy(course_id)
        THEN init_block_ref_from_course_id(course_id) ELSE <<>>)
    \o (IF Truthy(usage_id) THEN init_block_ref(usage_id) ELSE <<>>)
    \o CourseLocator__init__(url, version_guid, course_id, revision)

\* what is rendered in place of a usage_id that has not been initialized
NONE == <<"N", "O", "N", "E">>

\* BlockUsageLocator.__unicode__ without the '#NONE' of an unset usage_id
BlockUsageLocator__unicode__no_sentinel(o) ==
    IF GetAttr(o, "usage_id") = None
    THEN CourseLocator__unicode__(o)
    ELSE CourseLocator__unicode__(o) \o <<"#">> \o GetAttr(o, "usage_id")

BlockUsageLocator__unicode__(o) ==
    IF GetAttr(o, "usage_id") = None
    THEN CourseLocator__unicode__(o) \o <<"#">> \o NONE
    ELSE CourseLocator__unicode__(o) \o <<"#">> \o GetAttr(o, "usage_id")

\* cls(url=..., version_guid=..., ...): the constructor call at its end
Args(cls, u, v, c, r, b) ==
    [cls |-> cls, url |-> u, version_guid |-> v, course_id |-> c,
     revision |-> r, usage_id |-> b]

Call(a) ==
    IF a.cls = "CourseLocator"
    THEN Exec(New(a.cls),
              CourseLocator__init__(a.url, a.version_guid, a.course_id,
                                    a.revision), 1)
    ELSE Exec(New(a.cls),
              BlockUsageLocator__init__(a.url, a.version_guid, a.course_id,
                                        a.revision, a.usage_id), 1)

\* what the caller gets: the instance, or nothing when the call raised
Result(st) == IF st.exc = NoExc THEN Inst(st) ELSE NoObj

version_agnostic(o) ==
    IF Truthy(GetAttr(o, "course_id")) /\ Truthy(GetAttr(o, "version_guid"))
    THEN Call(Args("BlockUsageLocator", None, GetAttr(o, "version_guid"),
                   None, GetAttr(o, "revision"), GetAttr(o, "usage_id")))
    ELSE Call(Args("BlockUsageLocator", None, None,
                   GetAttr(o, "course_id"), GetAttr(o, "revision"),
                   GetAttr(o, "usage_id")))

---------------------------------------------------------------------------
(* DescriptionLocator *)

DescriptionLocator__init__(st, definition_id) ==
    [st EXCEPT !.d = Put(st.d, "definition_id", definition_id)]

\* reads self.definition_guid
DescriptionLocator__unicode__(o) ==
    <<"@">> \o str(GetAttr(o, "definition_guid"))

---------------------------------------------------------------------------
(* Locator: the operations every class answers *)

\* the exception unicode(o) raises: reading an attribute that neither the
\* instance nor its class has is an AttributeError
unicode_exc(o) ==
    IF o.cls = "DescriptionLocator" /\ ~HasAttr(o, "definition_guid")
    THEN "AttributeError" ELSE NoExc

unicode(o) ==
    CASE o.cls = "CourseLocator" -> CourseLocator__unicode__(o)
      [] o.cls = "BlockUsageLocator" -> BlockUsageLocator__unicode__(o)
      [] o.cls = "DescriptionLocator" -> DescriptionLocator__unicode__(o)

url_exc(o) == unicode_exc(o)
url(o) == Scheme \o unicode(o)

version_exc(o) ==
    IF o.cls = "DescriptionLocator" /\ ~HasAttr(o, "definition_guid")
    THEN "AttributeError" ELSE NoExc

version(o) ==
    IF o.cls = "DescriptionLocator" THEN GetAttr(o, "definition_guid")
    ELSE GetAttr(o, "version_guid")

\* self.__dict__ == other.__dict__
Locator__eq__(a, b) == a.d = b.d

---------------------------------------------------------------------------
(* The arguments the constructors are called with *)

Revisions == {<<"d">>, <<"p">>}                \* 'draft', 'published'

Guid1 == [i \in 1..OidLen |-> "a"]
Guid1Upper == [i \in 1..OidLen |-> "A"]
Guid2 == [i \in 1..OidLen |-> "2"]

UrlInputs ==
    {None, EmptyStr,
     Scheme \o <<"a">>,
     Scheme \o <<"a", ";", "d", "#", "h">>,
     Scheme \o <<"m", ".", "x">>,
     Scheme \o <<"@">> \o Guid1,
     Scheme \o <<"@">> \o Guid1Upper \o <<"#", "h">>,
     <<"a">>,                       \* no scheme
     Scheme \o <<"@", "1">>}        \* not 24 hex digits

VersionGuidInputs == {None, EmptyStr, ObjectId(Guid1), ObjectId(Guid2)}

CourseIdInputs ==
    {None, EmptyStr,
     <<"a">>,
     <<"a", ";", "d">>,
     <<"a", ";", "p", "#", "k">>,
     <<"m", ".", "x">>,
     <<"a", ";">>}                  \* no revision after the ';'

\* 'd#h' is a revision no parser would have produced
RevisionInputs == {None, EmptyStr} \cup Revisions \cup {<<"d", "#", "h">>}

\* 'h#' is not a block reference
UsageIdInputs == {None, EmptyStr, <<"h">>, <<"h", "#">>}

DefinitionIds == {ObjectId(Guid1), ObjectId(Guid2)}

\* the calls that build the second operand of ==
OtherArgs ==
    {Args("CourseLocator", Scheme \o <<"a">>, None, None, None, None),
     Args("CourseLocator", None, None, <<"a">>, None, None),
     Args("CourseLocator", None, ObjectId(Guid1), None, None, None),
     Args("BlockUsageLocator", None, None, <<"a">>, None, None),
     Args("BlockUsageLocator", None, None, <<"a">>, None, <<"h">>),
     Args("BlockUsageLocator", Scheme \o <<"a", "#", "h">>, None, None, None,
          None)}

\* the second operands of ==: the locators those calls return
Others == {Result(Call(a)) : a \in {x \in OtherArgs : Call(x).exc = NoExc}}

---------------------------------------------------------------------------
(* The locator operations *)

Init ==
    /\ op = "init" /\ args = NoArgs /\ obj = NoObj /\ exc = NoExc
    /\ ret = None /\ copy = NoObj /\ other = NoObj /\ eq = FALSE
    /\ last = NoLast
    /\ root = NoObj /\ tree_dict = NoDict /\ stack = <<>> /\ tree = NoTree

Fresh == /\ ret' = None /\ copy' = NoObj /\ other' = NoObj /\ eq' = FALSE
         /\ last' = NoLast /\ UNCHANGED treeVars

\* CourseLocator(url, version_guid, course_id, revision)
ConstructCourse ==
    \E u \in UrlInputs, v \in VersionGuidInputs, c \in CourseIdInputs,
       r \in RevisionInputs :
        LET a == Args("CourseLocator", u, v, c, r, None)
        IN  /\ op = "init"
            /\ op' = "construct" /\ args' = a
            /\ obj' = Result(Call(a)) /\ exc' = Call(a).exc
            /\ Fresh

\* BlockUsageLocator(url, version_guid, course_id, revision, usage_id)
ConstructBlock ==
    \E u \in UrlInputs, v \in VersionGuidInputs, c \in CourseIdInputs,
       r \in RevisionInputs, b \in UsageIdInputs :
        LET a == Args("BlockUsageLocator", u, v, c, r, b)
        IN  /\ op = "init"
            /\ op' = "construct" /\ args' = a
            /\ obj' = Result(Call(a)) /\ exc' = Call(a).exc
            /\ Fresh

\* DescriptionLocator(definition_id)
ConstructDescription ==
    \E id \in DefinitionIds :
        /\ op = "init"
        /\ op' = "construct"
        /\ args' = [cls |-> "DescriptionLocator", definition_id |-> id]
        /\ obj' = Inst(DescriptionLocator__init__(New("DescriptionLocator"),
                                                  id))
        /\ exc' = NoExc
        /\ Fresh

\* obj.url()
Url ==
    /\ op = "construct" /\ obj # NoObj
    /\ op' = "url"
    /\ exc' = url_exc(obj)
    /\ ret' = IF url_exc(obj) = NoExc THEN url(obj) ELSE None
    /\ UNCHANGED <<args, obj, copy, other, eq, last>>
    /\ UNCHANGED treeVars

\* obj.version()
Version ==
    /\ op = "construct" /\ obj # NoObj
    /\ op' = "version"
    /\ exc' = version_exc(obj)
    /\ ret' = IF version_exc(obj) = NoExc THEN version(obj) ELSE None
    /\ UNCHANGED <<args, obj, copy, other, eq, last>>
    /\ UNCHANGED treeVars

\* type(obj)(url=obj.url()), with the url the Url step returned
FromUrl ==
    /\ op = "url" /\ exc = NoExc
    /\ obj.cls \in {"CourseLocator", "BlockUsageLocator"}
    /\ op' = "from_url"
    /\ LET st == Call(Args(obj.cls, ret, None, None, None, None))
       IN  copy' = Result(st) /\ exc' = st.exc
    /\ UNCHANGED <<args, obj, ret, other, eq, last>>
    /\ UNCHANGED treeVars

\* obj.version_agnostic()
VersionAgnostic ==
    /\ op = "construct" /\ obj.cls = "BlockUsageLocator"
    /\ op' = "version_agnostic"
    /\ copy' = Result(version_agnostic(obj))
    /\ exc' = version_agnostic(obj).exc
    /\ UNCHANGED <<args, obj, ret, other, eq, last>>
    /\ UNCHANGED treeVars

\* obj == b for a second locator b
Eq ==
    /\ op = "construct" /\ obj.cls \in {"CourseLocator", "BlockUsageLocator"}
    /\ \E b \in Others :
        /\ other' = b
        /\ eq' = Locator__eq__(obj, b)
    /\ op' = "eq" /\ exc' = NoExc
    /\ UNCHANGED <<args, obj, ret, copy, last>>
    /\ UNCHANGED treeVars

Next ==
    \/ ConstructCourse
    \/ ConstructBlock
    \/ ConstructDescription
    \/ Url
    \/ Version
    \/ FromUrl
    \/ VersionAgnostic
    \/ Eq

Spec == Init /\ [][Next]_vars

---------------------------------------------------------------------------
(* The setters called one after the other on one instance, as the          *)
(* initializers call them: SpecSet starts from the instance __init__       *)
(* receives, with nothing set.  An OverSpecificationError leaves the       *)
(* instance as it was, and the caller may go on.                           *)

SetFields == {"version_guid", "course_id", "revision", "usage_id"}

ValuesOf(name) ==
    IF name = "version_guid" THEN {None, ObjectId(Guid1), ObjectId(Guid2)}
    ELSE {None, EmptyStr, <<"a">>, <<"b">>}

InitSet ==
    /\ op = "new" /\ args = NoArgs
    /\ obj = Inst(New("BlockUsageLocator")) /\ exc = NoExc
    /\ ret = None /\ copy = NoObj /\ other = NoObj /\ eq = FALSE
    /\ last = NoLast
    /\ root = NoObj /\ tree_dict = NoDict /\ stack = <<>> /\ tree = NoTree

\* obj.set_property(name, new), through the setter of the field
SetCall(name, new) ==
    LET st == Exec([cls |-> obj.cls, d |-> obj.d, exc |-> NoExc],
                   <<Set(name, new)>>, 1)
    IN  /\ op' = "set_property"
        /\ last' = [name |-> name, new |-> new]
        /\ obj' = Inst(st)
        /\ exc' = st.exc
        /\ UNCHANGED <<args, ret, copy, other, eq>>
        /\ UNCHANGED treeVars

SetCourseId == \E new \in ValuesOf("course_id") : SetCall("course_id", new)
SetRevision == \E new \in ValuesOf("revision") : SetCall("revision", new)
SetVersionGuid ==
    \E new \in ValuesOf("version_guid") : SetCall("version_guid", new)
SetUsageId == \E new \in ValuesOf("usage_id") : SetCall("usage_id", new)

NextSet ==
    \/ SetCourseId
    \/ SetRevision
    \/ SetVersionGuid
    \/ SetUsageId

SpecSet == InitSet /\ [][NextSet]_vars

---------------------------------------------------------------------------
(* VersionTree.  VersionTree.__init__ calls itself for every child, so a   *)
(* call in progress is a frame on the stack: its locator, the child        *)
(* locators tree_dict gives for it, the index of the next child to build   *)
(* and the children built so far.  An exception unwinds every frame.       *)

\* the deepest nesting of __init__ calls the model follows
MaxDepth == 4

Guid3 == [i \in 1..OidLen |-> "3"]
V1 == ObjectId(Guid1)
V2 == ObjectId(Guid2)
V3 == ObjectId(Guid3)

\* locators to build trees of: three with a version_guid, one with a
\* course_id only, and a DescriptionLocator
L1 == Result(Call(Args("CourseLocator", None, V1, None, None, None)))
L2 == Result(Call(Args("CourseLocator", None, V2, None, None, None)))
L3 == Result(Call(Args("BlockUsageLocator", None, V3, None, None, <<"h">>)))
LX == Result(Call(Args("CourseLocator", None, None, <<"a">>, None, None)))
D1 == Inst(DescriptionLocator__init__(New("DescriptionLocator"), V1))

TreeRoots == {L1, LX, D1}
ChildLists ==
    {<<>>, <<L2, L3>>, <<L3>>, <<L1>>, <<LX, L1>>, <<L3, L2>>, <<D1>>}

\* tree_dict: None (NoDict), or a mapping from some of the versions to child
\* lists
TreeDicts ==
    {NoDict} \cup
    {[given |-> TRUE, map |-> m] :
        m \in UNION {[K -> ChildLists] : K \in SUBSET {V1, V2, V3}}}

\* tree_dict.get(version, [])
TreeDictGet(td, v) == IF v \in DOMAIN td.map THEN td.map[v] ELSE <<>>

\* the children the frame of a locator has to build
KidsOf(td, locator) ==
    IF ~td.given THEN <<>> ELSE TreeDictGet(td, version(locator))

\* the exception the two asserts on the locator end in (NoExc: they pass).
\* Every locator here is an instance of a concrete Locator class, so the
\* first assert passes; evaluating locator.version() may itself raise.
AssertVersioned(locator) ==
    IF version_exc(locator) # NoExc THEN version_exc(locator)
    ELSE IF ~Truthy(version(locator)) THEN "AssertionError"
    ELSE NoExc

\* a frame whose comprehension starts at the second child
Frame_from_second(locator) ==
    [locator |-> locator, kids |-> KidsOf(tree_dict, locator), i |-> 2,
     children |-> <<>>]

\* the frame of a call that got past its asserts
Frame(locator) ==
    [locator |-> locator, kids |-> KidsOf(tree_dict, locator), i |-> 1,
     children |-> <<>>]

Top == stack[Len(stack)]

InitTree ==
    /\ op = "call" /\ args = NoArgs /\ obj = NoObj /\ exc = NoExc
    /\ ret = None /\ copy = NoObj /\ other = NoObj /\ eq = FALSE
    /\ last = NoLast
    /\ root \in TreeRoots /\ tree_dict \in TreeDicts
    /\ stack = <<>> /\ tree = NoTree

\* the entry of VersionTree.__init__(locator, tree_dict): the asserts, then
\* self.locator = locator
Enter(locator) ==
    /\ exc' = AssertVersioned(locator)
    /\ IF AssertVersioned(locator) # NoExc
       THEN op' = "raised" /\ stack' = <<>>
       ELSE op' = "running" /\ stack' = Append(stack, Frame(locator))
    /\ UNCHANGED <<args, obj, ret, copy, other, eq, last>>
    /\ UNCHANGED <<root, tree_dict, tree>>

\* VersionTree(root, tree_dict)
Begin == op = "call" /\ Enter(root)

\* the comprehension reaches its next child: VersionTree(child, tree_dict)
Descend ==
    /\ op = "running"
    /\ Top.i <= Len(Top.kids)
    /\ Len(stack) < MaxDepth
    /\ Enter(Top.kids[Top.i])

\* the comprehension is through: the call returns its tree to its caller
Return ==
    /\ op = "running"
    /\ Top.i > Len(Top.kids)
    /\ LET built == [locator |-> Top.locator, children |-> Top.children]
           n == Len(stack)
       IN  IF n = 1
           THEN /\ tree' = built /\ stack' = <<>> /\ op' = "returned"
           ELSE /\ stack' = [SubSeq(stack, 1, n - 1) EXCEPT
                                ![n - 1].children = Append(@, built),
                                ![n - 1].i = @ + 1]
                /\ UNCHANGED <<tree, op>>
    /\ UNCHANGED <<args, obj, exc, ret, copy, other, eq, last>>
    /\ UNCHANGED <<root, tree_dict>>

NextTree ==
    \/ Begin
    \/ Descend
    \/ Return

SpecTree == InitTree /\ [][NextTree]_vars

\* a call in progress keeps running
FairSpecTree == SpecTree /\ WF_vars(NextTree)

---------------------------------------------------------------------------
(* Properties of the locators, checked under Spec *)

CourseClasses == {"CourseLocator", "BlockUsageLocator"}
Constructed == op = "construct" /\ args.cls \in CourseClasses

\* C1: constructing a CourseLocator or BlockUsageLocator with none of url,
\* version_guid, course_id non-empty (each absent, or the empty string)
\* fails with InsufficientSpecificationError and with nothing else.
C1_InsufficientWhenNoneNonEmpty ==
    (Constructed /\ ~Truthy(args.url) /\ ~Truthy(args.version_guid)
        /\ ~Truthy(args.course_id))
    => exc = "InsufficientSpecificationError"

\* The non-empty values each supplied source yields for a field, read off the
\* arguments with the parsers alone.
Yield(present, v) == IF present /\ Truthy(v) THEN {v} ELSE {}
UrlParse(a) == parse_url(a.url)
UrlIsGuid(a) == Truthy(a.url) /\ "version_guid" \in DOMAIN UrlParse(a)
UrlIsCourse(a) == Truthy(a.url) /\ "id" \in DOMAIN UrlParse(a)
Sources(a, field) ==
    CASE field = "version_guid" ->
            (IF UrlIsGuid(a) THEN {ObjectId(UrlParse(a).version_guid)} ELSE {})
            \cup Yield(TRUE, a.version_guid)
      [] field = "course_id" ->
            (IF UrlIsCourse(a) THEN {UrlParse(a).id} ELSE {})
            \cup (IF Truthy(a.course_id)
                  THEN {parse_course_id(a.course_id).id} ELSE {})
      [] field = "revision" ->
            (IF UrlIsCourse(a)
             THEN Yield(TRUE, UrlParse(a).revision) ELSE {})
            \cup (IF Truthy(a.course_id)
                  THEN Yield(TRUE, parse_course_id(a.course_id).revision)
                  ELSE {})
            \cup Yield(TRUE, a.revision)
      [] field = "usage_id" ->
            (IF Truthy(a.url) THEN Yield(TRUE, UrlParse(a).block) ELSE {})
            \cup (IF Truthy(a.course_id)
                  THEN Yield(TRUE, parse_course_id(a.course_id).block)
                  ELSE {})
            \cup Yield(TRUE, a.usage_id)

FieldsOf(cls) ==
    IF cls = "BlockUsageLocator"
    THEN {"version_guid", "course_id", "revision", "usage_id"}
    ELSE {"version_guid", "course_id", "revision"}

\* every supplied argument has the shape its parser accepts
WellFormed(a) ==
    /\ Truthy(a.url) =>
        /\ UrlParse(a) # NoMatch
        /\ UrlIsGuid(a) => ObjectId(UrlParse(a).version_guid) # InvalidId
    /\ Truthy(a.version_guid) => IsObjectId(a.version_guid)
    /\ Truthy(a.course_id) => parse_course_id(a.course_id) # NoMatch
    /\ (a.cls = "BlockUsageLocator" /\ Truthy(a.usage_id))
        => parse_block_ref(a.usage_id) # NoMatch
Sufficient(a) ==
    Truthy(a.url) \/ Truthy(a.version_guid) \/ Truthy(a.course_id)

Disagree(a) == \E f \in FieldsOf(a.cls) : Cardinality(Sources(a, f)) > 1

\* C2: a constructor given well-formed arguments, one of url, version_guid,
\* course_id among them, never lets the last write win: when two sources
\* yield different non-empty values for a field it fails with
\* OverSpecificationError, and when the sources agree on every field it
\* succeeds and each field holds the agreed value (and stays unset when no
\* source yields one).
C2_NoLastWriteWins ==
    (Constructed /\ WellFormed(args) /\ Sufficient(args))
    => /\ Disagree(args) => exc = "OverSpecificationError" /\ obj = NoObj
       /\ ~Disagree(args) =>
            /\ exc = NoExc
            /\ \A f \in FieldsOf(args.cls) :
                IF Sources(args, f) = {}
                THEN ~Truthy(GetAttr(obj, f))
                ELSE Sources(args, f) = {GetAttr(obj, f)}

\* two sources that disagree on the revision, and the constructor refused
C2_Witness ==
    /\ Constructed /\ WellFormed(args) /\ Sufficient(args)
    /\ Cardinality(Sources(args, "revision")) > 1
    /\ \A f \in FieldsOf(args.cls) \ {"revision"} :
            Cardinality(Sources(args, f)) <= 1
    /\ exc = "OverSpecificationError"

SameField(a, b, f) == GetAttr(a, f) = GetAttr(b, f)

\* C3 as stated: every constructed CourseLocator or BlockUsageLocator x is
\* rebuilt from x.url() with the same version_guid, course_id, revision and
\* usage_id.
C3_RoundTrip ==
    op = "from_url"
    => /\ exc = NoExc
       /\ copy.cls = obj.cls
       /\ \A f \in FieldsOf(obj.cls) : SameField(copy, obj, f)

\* C3 as amended: for every constructed CourseLocator or BlockUsageLocator x
\* whose revision is unset or a plain word, the same class built from
\* x.url() is built and has the same course_id, the same revision when x has
\* a course_id, the same version_guid when x has no course_id, and the same
\* usage_id when x's is set; what url() does not render is lost: the copy has
\* no version_guid when x has a course_id, no revision when x has none, and
\* the usage_id 'NONE' when x's is unset.
C3_RoundTripOfRenderedFields ==
    (op = "from_url"
        /\ (Truthy(GetAttr(obj, "revision"))
            => IsWord(GetAttr(obj, "revision"))))
    => /\ exc = NoExc
       /\ copy.cls = obj.cls
       /\ SameField(copy, obj, "course_id")
       /\ IF Truthy(GetAttr(obj, "course_id"))
          THEN /\ SameField(copy, obj, "revision")
               /\ GetAttr(copy, "version_guid") = None
          ELSE /\ SameField(copy, obj, "version_guid")
               /\ GetAttr(copy, "revision") = None
       /\ obj.cls = "BlockUsageLocator" =>
            GetAttr(copy, "usage_id") =
                IF GetAttr(obj, "usage_id") = None THEN NONE
                ELSE GetAttr(obj, "usage_id")

\* a block locator with course_id, revision and version_guid but no usage_id
\* went through url() and back
C3_Witness ==
    /\ op = "from_url" /\ exc = NoExc
    /\ obj.cls = "BlockUsageLocator"
    /\ Truthy(GetAttr(obj, "course_id"))
    /\ Truthy(GetAttr(obj, "version_guid"))
    /\ Truthy(GetAttr(obj, "revision"))
    /\ GetAttr(obj, "usage_id") = None
    /\ GetAttr(copy, "usage_id") = NONE

\* C4: a == b exactly when version_guid, course_id, revision and usage_id
\* are pairwise equal, an unset field being unset however it was left so.
C4_EqIffFieldsEqual ==
    op = "eq"
    => (eq <=> \A f \in {"version_guid", "course_id", "revision", "usage_id"} :
                SameField(obj, other, f))

\* C5: version_agnostic() of a BlockUsageLocator returns a BlockUsageLocator
\* with the same usage_id and revision; with course_id unset and the same
\* version_guid when the original has both, and with the one of course_id,
\* version_guid the original has otherwise.
C5_VersionAgnostic ==
    op = "version_agnostic"
    => /\ exc = NoExc
       /\ copy.cls = "BlockUsageLocator"
       /\ SameField(copy, obj, "usage_id")
       /\ SameField(copy, obj, "revision")
       /\ IF Truthy(GetAttr(obj, "course_id"))
             /\ Truthy(GetAttr(obj, "version_guid"))
          THEN /\ ~Truthy(GetAttr(copy, "course_id"))
               /\ SameField(copy, obj, "version_guid")
          ELSE /\ SameField(copy, obj, "course_id")
               /\ SameField(copy, obj, "version_guid")

\* C6: DescriptionLocator(definition_id) stores the id as given; its url()
\* returns 'edx://@' + str(id) and its version() returns the id.
C6_DescriptionLocator ==
    obj.cls = "DescriptionLocator"
    => /\ GetAttr(obj, "definition_id") = args.definition_id
       /\ op = "url" =>
            exc = NoExc /\ ret = Scheme \o <<"@">> \o str(args.definition_id)
       /\ op = "version" => exc = NoExc /\ ret = args.definition_id

\* the canonical rendering of the four fields
Canonical(o) ==
    (IF Truthy(GetAttr(o, "course_id"))
     THEN GetAttr(o, "course_id")
          \o (IF Truthy(GetAttr(o, "revision"))
              THEN <<";">> \o GetAttr(o, "revision") ELSE <<>>)
     ELSE <<"@">> \o Tail(GetAttr(o, "version_guid")))
    \o (IF o.cls # "BlockUsageLocator" THEN <<>>
        ELSE IF Truthy(GetAttr(o, "usage_id"))
            THEN <<"#">> \o GetAttr(o, "usage_id")
        ELSE <<"#">> \o NONE)

\* C8: url() of a constructed CourseLocator is 'edx://' + course_id
\* [+ ';' + revision] when course_id is set and 'edx://@' + the version id
\* otherwise, followed for a BlockUsageLocator by '#' + usage_id, or '#NONE'
\* when usage_id is unset; the version_guid is never rendered next to a
\* course_id.
C8_CanonicalUrl ==
    (op = "url" /\ obj.cls \in CourseClasses)
    => /\ exc = NoExc
       /\ Truthy(GetAttr(obj, "course_id"))
            \/ IsObjectId(GetAttr(obj, "version_guid"))
       /\ ret = Scheme \o Canonical(obj)
       /\ Truthy(GetAttr(obj, "course_id"))
            => "@" \notin {ret[i] : i \in 1..Len(ret)}

\* url() of a block locator that has both course_id and version_guid and no
\* usage_id
C8_Witness ==
    /\ op = "url" /\ obj.cls = "BlockUsageLocator"
    /\ Truthy(GetAttr(obj, "course_id"))
    /\ Truthy(GetAttr(obj, "version_guid"))
    /\ ~Truthy(GetAttr(obj, "usage_id"))
    /\ ret = Scheme \o GetAttr(obj, "course_id") \o <<"#">> \o NONE

---------------------------------------------------------------------------
(* Properties of set_property, checked under SpecSet *)

\* C9: a set_property call on an empty field sets it to the new value; on a
\* field that holds the new value it leaves the field as it is; on a field
\* that holds another value it fails with OverSpecificationError and the
\* field keeps its value.  So a field that holds a non-empty value holds
\* that value in every later state.
C9_SetOnce ==
    [][/\ op' = "set_property" =>
            LET before == GetAttr(obj, last'.name)
                after == GetAttr(obj', last'.name)
            IN  /\ ~Truthy(before) => exc' = NoExc /\ after = last'.new
                /\ (Truthy(before) /\ before = last'.new)
                    => exc' = NoExc /\ after = before
                /\ (Truthy(before) /\ before # last'.new)
                    => exc' = "OverSpecificationError" /\ after = before
       /\ \A f \in SetFields :
            Truthy(GetAttr(obj, f)) => GetAttr(obj', f) = GetAttr(obj, f)
      ]_vars

\* a call refused because the field holds another value
C9_Witness ==
    /\ op = "set_property" /\ exc = "OverSpecificationError"
    /\ Truthy(GetAttr(obj, last.name))
    /\ Truthy(last.new)
    /\ GetAttr(obj, last.name) # last.new

---------------------------------------------------------------------------
(* Properties of VersionTree, checked under FairSpecTree *)

Done == op \in {"returned", "raised"}

\* locator.version() returns a non-empty version
HasVersion(locator) ==
    version_exc(locator) = NoExc /\ Truthy(version(locator))

RECURSIVE NodesOf(_)
NodesOf(t) ==
    {t} \cup UNION {NodesOf(t.children[i]) : i \in DOMAIN t.children}

\* the versions tree_dict leads to from version v in one step: those of the
\* child locators listed under v that have one
ChildVersions(td, v) ==
    IF ~td.given THEN {}
    ELSE LET kids == TreeDictGet(td, v)
         IN  {version(kids[i]) : i \in {j \in DOMAIN kids : HasVersion(kids[j])}}

\* the versions tree_dict leads to from the versions S in any number of steps
RECURSIVE ReachFrom(_, _)
ReachFrom(td, S) ==
    LET T == S \cup UNION {ChildVersions(td, v) : v \in S}
    IN  IF T = S THEN S ELSE ReachFrom(td, T)

OnCycle(td, v) == v \in ReachFrom(td, ChildVersions(td, v))

\* tree_dict contains a cycle reachable from the root's version
CycleReachable ==
    /\ HasVersion(root)
    /\ \E v \in ReachFrom(tree_dict, {version(root)}) : OnCycle(tree_dict, v)

\* the tree is that of the root, and the children of each node are, in
\* order, trees of the locators tree_dict lists under the node's version (none
\* when the version is not a key, or when no tree_dict is given)
ChildrenAsMapped ==
    /\ tree.locator = root
    /\ \A n \in NodesOf(tree) :
        /\ Len(n.children) =
               Len(IF tree_dict.given
                   THEN TreeDictGet(tree_dict, version(n.locator)) ELSE <<>>)
        /\ \A i \in DOMAIN n.children :
               n.children[i].locator =
                   TreeDictGet(tree_dict, version(n.locator))[i]

\* C7: every node of a constructed VersionTree, and the locator of every
\* __init__ call that got past its asserts, has a non-empty version(); and a
\* construction that fails, which it does on a root or a reached child
\* without a version, fails with AssertionError.
C7_NodesVersioned ==
    /\ op = "returned" => \A n \in NodesOf(tree) : HasVersion(n.locator)
    /\ \A i \in DOMAIN stack : HasVersion(stack[i].locator)
    /\ op = "raised" => exc = "AssertionError"

\* C10 as stated: without a cycle reachable from the root's version the
\* construction terminates; the tree it returns has, at each node, the trees
\* of the locators tree_dict lists under the node's version, in order; with a
\* reachable cycle the construction never terminates.
C10_TerminatesIffAcyclic ==
    /\ [](~CycleReachable => <>Done)
    /\ [](op = "returned" => ChildrenAsMapped)
    /\ [](CycleReachable => ~Done)

\* C10 as amended: without a cycle reachable from the root's version the
\* construction terminates, with a tree or with the failure of a locator
\* that has no version; the tree it returns has, at each node, the trees of
\* the locators tree_dict lists under the node's version, in order; with a
\* reachable cycle the construction never returns a tree: it fails on a
\* locator without a version if it meets one before it walks into the
\* cycle, and otherwise nests __init__ calls to any depth.
C10_TerminatesWhenAcyclic ==
    /\ [](~CycleReachable => <>Done)
    /\ [](op = "returned" => ChildrenAsMapped /\ ~CycleReachable)
    /\ [](CycleReachable => <>(op = "raised" \/ Len(stack) = MaxDepth))

\* a returned tree of two children, one of them with a child of its own
C10_Witness ==
    /\ op = "returned"
    /\ Len(tree.children) = 2
    /\ \E i \in DOMAIN tree.children : Len(tree.children[i].children) > 0

====
